---------------------------- MODULE Spec2Model ----------------------------
(***************************************************************************)
(* Model of scripts/fetch_vct_data.py: the event selector                  *)
(* (fetch_events_for_year), the row flattener (fetch_rows_for_events),     *)
(* the persistence writer (ensure_parents, write_sqlite) and main.         *)
(*                                                                         *)
(* Python's Optional values are written None == <<>> and Some(x) == <<x>>, *)
(* so that an absent value, 0 and an empty tuple stay distinct.            *)
(***************************************************************************)
EXTENDS Integers, Sequences, FiniteSets, TLC

VARIABLES
    pc,          \* position of the run
    args,        \* argparse.Namespace: year, events, out, matches_out, db
    api_events,  \* what the statistics provider lists as VCT events
    world,       \* what the provider returns for events.matches / series.matches
    listed,      \* local evs of fetch_events_for_year (the list_events result)
    evs,         \* return value of fetch_events_for_year
    df_agents,   \* agent rows (the DataFrame's records, in order)
    df_matches,  \* match rows
    dirs,        \* directories that exist in the file system
    files,       \* CSV files: path -> rows written
    db,          \* the SQLite database file below the directory DbDir
    db0,         \* the database as it was when the run started
    dirs0,       \* the directories that existed when the run started
    ws,          \* parameters of the active write_sqlite call
    conn,        \* "none" | "open" | "closed"
    committed,   \* conn.commit() of the active call has completed
    exc,         \* the exception propagating, or None
    stdout,      \* lines printed
    calls        \* number of write_sqlite calls made

vars == << pc, args, api_events, world, listed, evs, df_agents, df_matches,
           dirs, files, db, db0, dirs0, ws, conn, committed, exc, stdout,
           calls >>

---------------------------------------------------------------------------
(* Bounds of the model *)
MaxEvents == 3
MaxMaps == 2
MaxPlayers == 2
MaxCalls == 2

(* Program constants *)
DefaultYear == 2024

None == << >>
Some(x) == << x >>

Range(s) == { s[i] : i \in 1..Len(s) }
Take(s, n) == SubSeq(s, 1, IF n < Len(s) THEN n ELSE Len(s))
SeqsUpTo(S, n) == UNION { [1..k -> S] : k \in 0..n }

---------------------------------------------------------------------------
(* Paths: dir is os.path.dirname(path), "" for a bare file name *)
Path(d, b) == [dir |-> d, base |-> b]
DefaultOut == Path("data", "vct2024_agent_rounds.csv")
DefaultMatchesOut == Path("data", "vct2024_matches.csv")
DefaultArgs ==
    [year |-> DefaultYear, events |-> None, out |-> DefaultOut,
     matches_out |-> DefaultMatchesOut, db |-> None]

---------------------------------------------------------------------------
(* Event selector *)

Date(y) == [year |-> y]
Event(i, sd, ed) ==
    [id |-> i,
     name |-> IF i % 2 = 1 THEN "Masters" ELSE "Champions",
     region |-> IF i % 2 = 1 THEN "EMEA" ELSE "Americas",
     start_date |-> sd, end_date |-> ed]

StartDates == {None, Some(Date(DefaultYear - 1)), Some(Date(DefaultYear))}
EndDates == {None, Some(Date(DefaultYear)), Some(Date(DefaultYear + 1))}
Years == {DefaultYear, DefaultYear + 1}

\* --events: omitted, or any int (type=int accepts 0 and negative values)
Limits == {None} \cup { Some(n) : n \in -1..MaxEvents }

\* the provider's event lists: the i-th event has id i
ApiEventLists ==
    UNION { { [i \in 1..k |-> Event(i, d[i][1], d[i][2])] :
                d \in [1..k -> StartDates \X EndDates] } : k \in 0..MaxEvents }

\* (variant: the limit is never passed on)
LimitArgNoLimit(limit_events) == None
\* limit=limit_events or None
LimitArg(limit_events) ==
    IF limit_events = None \/ limit_events = Some(0) THEN None ELSE limit_events

\* events.list_events(tier, status, limit): the provider's list, capped by the
\* limit; what the library returns for a negative limit is not fixed by this
\* repository, so every prefix is possible
ListEvents(api, limit) ==
    IF limit = None THEN { api }
    ELSE IF limit[1] >= 0 THEN { Take(api, limit[1]) }
    ELSE { SubSeq(api, 1, k) : k \in 0..Len(api) }

\* (variant: only the start date's year is compared)
KeepsStartOnly(ev, year) ==
    \/ ev.start_date # None /\ ev.start_date[1].year = year
    \/ ev.start_date = None /\ ev.end_date = None
\* the condition of the if / elif
Keeps(ev, year) ==
    \/ ev.start_date # None /\ ev.start_date[1].year = year
    \/ ev.end_date # None /\ ev.end_date[1].year = year
    \/ ev.start_date = None /\ ev.end_date = None

RECURSIVE Filtered(_, _)
Filtered(l, year) ==
    IF l = << >> THEN << >>
    ELSE (IF Keeps(Head(l), year) THEN << Head(l) >> ELSE << >>)
         \o Filtered(Tail(l), year)

\* (variant: return filtered)
FilteredOrRawNoFallback(l, year) == Filtered(l, year)
\* return filtered or evs
FilteredOrRaw(l, year) ==
    IF Filtered(l, year) # << >> THEN Filtered(l, year) ELSE l

FetchEventsForYear ==
    /\ pc = "fetch_events"
    /\ \E l \in ListEvents(api_events, LimitArg(args.events)) :
          /\ listed' = l
          /\ evs' = FilteredOrRaw(l, args.year)
    /\ pc' = "fetch_rows"
    /\ UNCHANGED << args, api_events, world, df_agents, df_matches, dirs, files,
                    db, db0, dirs0, ws, conn, committed, exc, stdout, calls >>

---------------------------------------------------------------------------
(* Row flattener *)

Team(nm, sh, sc, w) == [name |-> nm, short |-> sh, score |-> sc, is_winner |-> w]
Player(nm, ts, ag, kills) ==
    [name |-> nm, team_short |-> ts, agents |-> ag,
     k |-> kills, d |-> 10, a |-> 5, acs |-> 250, fk |-> 3, fd |-> 1]
MapStats(nm, ts, ps) == [map_name |-> nm, teams |-> ts, players |-> ps]

\* events.matches(event_id=eid, limit=None) and series.matches(series_id=mid,
\* limit=None): what the provider holds for the event and for the match
EventsMatches(w, eid) == w.matches[eid]
SeriesMatches(w, mid) == w.maps[mid]

\* (x.score or 0)
ScoreOr0(sc) == IF sc = None THEN 0 ELSE sc[1]

\* teams = mp.teams or ()
TeamsOrEmpty(mp) == IF mp.teams = None THEN << >> ELSE mp.teams[1]

\* (variant: the opponent's score is left out)
RoundsPlayedOwnScore(a, b) == ScoreOr0(a.score)
\* (team_obj.score or 0) + (opp_obj.score or 0)
RoundsPlayed(a, b) == ScoreOr0(a.score) + ScoreOr0(b.score)

\* 1 if team_obj.is_winner else 0
MatchResult(team_obj) == IF team_obj.is_winner THEN 1 ELSE 0

\* (variant: only the first team is looked at)
AgentResultFirstTeamOnly(t1, t2, p) ==
    IF t1.is_winner /\ p.team_short = t1.short THEN 1 ELSE 0
\* 1 if (t1.is_winner and p.team_short == t1.short)
\*      or (t2.is_winner and p.team_short == t2.short) else 0
AgentResult(t1, t2, p) ==
    IF \/ t1.is_winner /\ p.team_short = t1.short
       \/ t2.is_winner /\ p.team_short = t2.short
    THEN 1 ELSE 0

MatchRow(ev, mid, mp, team_obj, opp_obj) ==
    [event_id |-> ev.id, event_name |-> ev.name, region |-> ev.region,
     match_id |-> mid, map |-> mp.map_name,
     team |-> team_obj.name, opponent |-> opp_obj.name,
     rounds_played |-> RoundsPlayed(team_obj, opp_obj),
     result |-> MatchResult(team_obj),
     start_time |-> None]

AgentRow(ev, mid, mp, t1, t2, p) ==
    [event_id |-> ev.id, event_name |-> ev.name, region |-> ev.region,
     match_id |-> mid, map |-> mp.map_name,
     team |-> p.team_short, player |-> p.name,
     agent |-> IF p.agents # << >> THEN Some(p.agents[1]) ELSE None,
     kills |-> p.k, deaths |-> p.d, assists |-> p.a,
     acs |-> p.acs, fk |-> p.fk, fd |-> p.fd,
     rounds_played |-> RoundsPlayed(t1, t2),
     result |-> AgentResult(t1, t2, p)]

\* (variant: if len(teams) < 2: continue)
IncludedAtLeastTwo(mp) == Len(TeamsOrEmpty(mp)) >= 2
\* if len(teams) != 2: continue
Included(mp) == Len(TeamsOrEmpty(mp)) = 2

\* (variant: only the (t1, t2) orientation is emitted)
MapMatchRowsOneWay(ev, mid, mp) ==
    IF ~Included(mp) THEN << >>
    ELSE << MatchRow(ev, mid, mp, TeamsOrEmpty(mp)[1], TeamsOrEmpty(mp)[2]) >>
\* the body of "for mp in map_stats": the rows one map appends
MapMatchRows(ev, mid, mp) ==
    IF ~Included(mp) THEN << >>
    ELSE LET t1 == TeamsOrEmpty(mp)[1]
             t2 == TeamsOrEmpty(mp)[2]
         IN  << MatchRow(ev, mid, mp, t1, t2), MatchRow(ev, mid, mp, t2, t1) >>

MapAgentRows(ev, mid, mp) ==
    IF ~Included(mp) THEN << >>
    ELSE LET t1 == TeamsOrEmpty(mp)[1]
             t2 == TeamsOrEmpty(mp)[2]
         IN  [j \in 1..Len(mp.players) |-> AgentRow(ev, mid, mp, t1, t2, mp.players[j])]

MapRows(kind, ev, mid, mp) ==
    IF kind = "agent" THEN MapAgentRows(ev, mid, mp) ELSE MapMatchRows(ev, mid, mp)

\* for mp in map_stats
RECURSIVE RowsOfMaps(_, _, _, _)
RowsOfMaps(kind, ev, mid, maps) ==
    IF maps = << >> THEN << >>
    ELSE MapRows(kind, ev, mid, Head(maps)) \o RowsOfMaps(kind, ev, mid, Tail(maps))

\* for m in ev_matches
RECURSIVE RowsOfMatches(_, _, _, _)
RowsOfMatches(kind, ev, ms, w) ==
    IF ms = << >> THEN << >>
    ELSE RowsOfMaps(kind, ev, Head(ms).match_id, SeriesMatches(w, Head(ms).match_id))
         \o RowsOfMatches(kind, ev, Tail(ms), w)

\* for ev in evs
RECURSIVE RowsOfEvents(_, _, _)
RowsOfEvents(kind, es, w) ==
    IF es = << >> THEN << >>
    ELSE RowsOfMatches(kind, Head(es), EventsMatches(w, Head(es).id), w)
         \o RowsOfEvents(kind, Tail(es), w)

FetchRowsForEvents ==
    /\ pc = "fetch_rows"
    /\ df_agents' = RowsOfEvents("agent", evs, world)
    /\ df_matches' = RowsOfEvents("match", evs, world)
    /\ pc' = "ensure_out"
    /\ UNCHANGED << args, api_events, world, listed, evs, dirs, files,
                    db, db0, dirs0, ws, conn, committed, exc, stdout, calls >>

---------------------------------------------------------------------------
NoWorld == [matches |-> << >>, maps |-> << >>]
NoDb == [exists |-> FALSE, agent_rounds |-> None, matches |-> None, indexes |-> {}]
\* the directory of the database file, and the directories a run can start
\* with: an existing database file lies in an existing directory
DbDir == "out"
StartDirs(d) == { ds \in SUBSET { DefaultOut.dir, DbDir } : d.exists => DbDir \in ds }
NoCall == [df_agents |-> << >>, df_matches |-> << >>, db_path |-> DefaultOut]

InitRest ==
    /\ df_agents = << >> /\ df_matches = << >>
    /\ files = << >>
    /\ ws = NoCall /\ conn = "none" /\ committed = FALSE
    /\ exc = None /\ stdout = << >> /\ calls = 0

(* The selector on its own: every year, limit and provider list *)
InitEvents ==
    /\ pc = "fetch_events"
    /\ args \in { [DefaultArgs EXCEPT !.year = y, !.events = l] :
                    y \in Years, l \in Limits }
    /\ api_events \in ApiEventLists
    /\ listed = << >> /\ evs = << >>
    /\ world = NoWorld
    /\ db = NoDb /\ db0 = NoDb
    /\ dirs = {} /\ dirs0 = {}
    /\ InitRest

NextEvents == FetchEventsForYear
SpecEvents == InitEvents /\ [][NextEvents]_vars

---------------------------------------------------------------------------
(* The flattener on its own.  Two events; the first has matches 11 and 12,  *)
(* the second match 21.  The provider's maps are either up to MaxMaps maps  *)
(* of every team-list shape, without players or with MaxPlayers of them,    *)
(* spread over the matches, or one two-team map with every combination of  *)
(* scores, winner flags, short codes and up to MaxPlayers players.          *)

E1 == Event(1, Some(Date(DefaultYear)), Some(Date(DefaultYear)))
E2 == Event(2, None, None)
EvsChoices == { << >>, << E1 >>, << E1, E2 >>, << E2, E1 >> }

MatchIds == {11, 12, 21}
MatchesOfEvents ==
    [e \in {1, 2} |->
        IF e = 1 THEN << [match_id |-> 11], [match_id |-> 12] >>
        ELSE << [match_id |-> 21] >>]

Players ==
    << Player("p1", "A", << "Jett" >>, 20),
       Player("p2", "B", << >>, 11),
       Player("p3", "C", << "Sova", "Omen" >>, 7) >>
PlayerNo(i) == Players[((i - 1) % Len(Players)) + 1]
Roster(n) == [i \in 1..n |-> PlayerNo(i)]

Scores == {None, Some(7), Some(13)}
Teams ==
    { Team(id[1], id[2], sc, w) :
        id \in {<< "Alpha", "A" >>, << "Bravo", "B" >>}, sc \in Scores, w \in BOOLEAN }
TeamA == Team("Alpha", "A", Some(13), TRUE)
TeamB == Team("Bravo", "B", None, FALSE)

ShapeTeams ==
    { None, Some(<< >>), Some(<< TeamA >>), Some(<< TeamA, TeamB >>),
      Some(<< TeamA, TeamB, TeamA >>) }
ShapeMaps ==
    { MapStats("Ascent", ts, Roster(n)) : ts \in ShapeTeams, n \in {0, MaxPlayers} }

\* the maps of one match are distinct maps of the series
MapNames == << "Ascent", "Bind", "Haven", "Lotus", "Split" >>
Named(maps) == [k \in 1..Len(maps) |-> [maps[k] EXCEPT !.map_name = MapNames[k]]]

RECURSIVE MapsOfMatch(_, _)
MapsOfMatch(s, mid) ==
    IF s = << >> THEN << >>
    ELSE (IF Head(s)[1] = mid THEN << Head(s)[2] >> ELSE << >>)
         \o MapsOfMatch(Tail(s), mid)

ShapeWorlds ==
    { [matches |-> MatchesOfEvents,
       maps |-> [mid \in MatchIds |-> Named(MapsOfMatch(s, mid))]] :
        s \in { t \in SeqsUpTo(MatchIds \X ShapeMaps, MaxMaps) :
                  \A i \in 1..(Len(t) - 1) : t[i][1] <= t[i + 1][1] } }

DetailWorlds ==
    { [matches |-> MatchesOfEvents,
       maps |-> [mid \in MatchIds |->
                   IF mid = 11
                   THEN << MapStats("Ascent", Some(<< tt[1], tt[2] >>), ps) >>
                   ELSE << >>]] :
        tt \in Teams \X Teams, ps \in SeqsUpTo(Range(Players), MaxPlayers) }

InitRows ==
    /\ pc = "fetch_rows"
    /\ args = DefaultArgs
    /\ evs \in EvsChoices
    /\ listed = evs /\ api_events = evs
    /\ world \in ShapeWorlds \cup DetailWorlds
    /\ db = NoDb /\ db0 = NoDb
    /\ dirs = {} /\ dirs0 = {}
    /\ InitRest

NextRows == FetchRowsForEvents
SpecRows == InitRows /\ [][NextRows]_vars

---------------------------------------------------------------------------
(* Persistence writer *)

Put(f, p, v) == [x \in DOMAIN f \cup {p} |-> IF x = p THEN v ELSE f[x]]
Raise(name) == Some(name)

\* os.makedirs(os.path.dirname(path), exist_ok=True): os.makedirs("") raises
\* FileNotFoundError, so a path without a directory part fails
EnsureParentsRaises(path) == path.dir = ""
EnsureParents(ds, path) == ds \cup {path.dir}

AgentIndexes == {"idx_agent_region", "idx_agent_match"}
AllIndexes == AgentIndexes \cup {"idx_matches_region"}
IndexTable(ix) == IF ix \in AgentIndexes THEN "agent_rounds" ELSE "matches"

\* (variant: if_exists="append")
ToSqlAppend(d, table, df) ==
    [d EXCEPT ![table] = IF @ = None THEN Some(df) ELSE Some(@[1] \o df)]
\* df.to_sql(table, conn, if_exists="replace", index=False): the table is
\* dropped (and its indexes with it) and created again from the frame
ToSql(d, table, df) ==
    [d EXCEPT ![table] = Some(df),
              !.indexes = { ix \in @ : IndexTable(ix) # table }]

\* conn.execute("CREATE INDEX IF NOT EXISTS <ix> ON <table>(<column>)")
CreateIndexIfNotExists(d, ix) == [d EXCEPT !.indexes = @ \cup {ix}]

\* if df_agents.empty or df_matches.empty
EitherEmpty(dfa, dfm) == dfa = << >> \/ dfm = << >>

Warning == "Warning: no data fetched; skipping SQLite write."

WsFrame ==
    UNCHANGED << args, api_events, world, listed, evs, df_agents, df_matches,
                 files, db0, dirs0, calls >>

\* lines 122-124
WsCheckEmpty ==
    /\ pc = "ws_entry"
    /\ IF EitherEmpty(ws.df_agents, ws.df_matches)
       THEN /\ stdout' = Append(stdout, Warning)
            /\ pc' = "ws_done"
       ELSE /\ stdout' = stdout
            /\ pc' = "ws_ensure_parents"
    /\ UNCHANGED << db, ws, conn, committed, exc, dirs >>
    /\ WsFrame

\* line 125
WsEnsureParents ==
    /\ pc = "ws_ensure_parents"
    /\ IF EnsureParentsRaises(ws.db_path)
       THEN /\ exc' = Raise("FileNotFoundError")
            /\ pc' = "ws_done"
            /\ dirs' = dirs
       ELSE /\ exc' = exc
            /\ pc' = "ws_connect"
            /\ dirs' = EnsureParents(dirs, ws.db_path)
    /\ UNCHANGED << db, ws, conn, committed, stdout >>
    /\ WsFrame

\* line 126: the connection is opened (the file is created), or connect raises
WsConnect ==
    /\ pc = "ws_connect"
    /\ \/ /\ conn' = "open"
          /\ db' = [db EXCEPT !.exists = TRUE]
          /\ pc' = "ws_to_sql_agents"
          /\ exc' = exc
       \/ /\ exc' = Raise("OperationalError")
          /\ pc' = "ws_done"
          /\ UNCHANGED << conn, db >>
    /\ UNCHANGED << ws, committed, stdout, dirs >>
    /\ WsFrame

\* a statement of the try block: it takes effect and control moves on, or it
\* raises and control moves to the finally block
TryStep(at, effect, next) ==
    /\ pc = at
    /\ \/ /\ db' = effect
          /\ pc' = next
          /\ exc' = exc
       \/ /\ exc' = Raise("OperationalError")
          /\ pc' = "ws_finally"
          /\ db' = db
    /\ UNCHANGED << ws, conn, committed, stdout, dirs >>
    /\ WsFrame

\* lines 128-132
WsToSqlAgents ==
    TryStep("ws_to_sql_agents", ToSql(db, "agent_rounds", ws.df_agents),
            "ws_to_sql_matches")
WsToSqlMatches ==
    TryStep("ws_to_sql_matches", ToSql(db, "matches", ws.df_matches),
            "ws_index_agent_region")
WsIndexAgentRegion ==
    TryStep("ws_index_agent_region", CreateIndexIfNotExists(db, "idx_agent_region"),
            "ws_index_agent_match")
WsIndexAgentMatch ==
    TryStep("ws_index_agent_match", CreateIndexIfNotExists(db, "idx_agent_match"),
            "ws_index_matches_region")
WsIndexMatchesRegion ==
    TryStep("ws_index_matches_region", CreateIndexIfNotExists(db, "idx_matches_region"),
            "ws_commit")

\* line 133
WsCommit ==
    /\ pc = "ws_commit"
    /\ \/ /\ committed' = TRUE
          /\ exc' = exc
       \/ /\ exc' = Raise("OperationalError")
          /\ committed' = committed
    /\ pc' = "ws_finally"
    /\ UNCHANGED << db, ws, conn, stdout, dirs >>
    /\ WsFrame

\* (variant: conn.close() after the commit only, without try/finally)
WsFinallyCloseOnSuccessOnly ==
    /\ pc = "ws_finally"
    /\ conn' = IF exc = None THEN "closed" ELSE conn
    /\ pc' = "ws_done"
    /\ UNCHANGED << db, ws, committed, exc, stdout, dirs >>
    /\ WsFrame
\* lines 134-135: finally: conn.close(); a pending exception then propagates
WsFinally ==
    /\ pc = "ws_finally"
    /\ conn' = "closed"
    /\ pc' = "ws_done"
    /\ UNCHANGED << db, ws, committed, exc, stdout, dirs >>
    /\ WsFrame

WriteSqliteStep ==
    \/ WsCheckEmpty
    \/ WsEnsureParents
    \/ WsConnect
    \/ WsToSqlAgents
    \/ WsToSqlMatches
    \/ WsIndexAgentRegion
    \/ WsIndexAgentMatch
    \/ WsIndexMatchesRegion
    \/ WsCommit
    \/ WsFinally

---------------------------------------------------------------------------
(* main *)

MainFrame == UNCHANGED << api_events, world, listed, evs, db0, dirs0 >>

\* --out, --matches-out: the default, or a file name without a directory part
OutPaths == { DefaultOut, Path("", "agents.csv") }
MatchesOutPaths == { DefaultMatchesOut, Path("", "matches.csv") }
\* --db: omitted, a path below a directory, or a bare file name
DbPaths == { Path(DbDir, "vct2024.sqlite"), Path("", "vct2024.sqlite") }

\* line 149
ParseArgs ==
    /\ pc = "parse_args"
    /\ \E y \in Years, l \in Limits, o \in OutPaths, m \in MatchesOutPaths,
          d \in {None} \cup { Some(q) : q \in DbPaths } :
          args' = [year |-> y, events |-> l, out |-> o, matches_out |-> m, db |-> d]
    /\ pc' = "fetch_events"
    /\ UNCHANGED << df_agents, df_matches, dirs, files, db, ws, conn, committed,
                    exc, stdout, calls >>
    /\ MainFrame

\* lines 153 and 154
MainEnsureParents(at, path, next) ==
    /\ pc = at
    /\ IF EnsureParentsRaises(path)
       THEN /\ exc' = Raise("FileNotFoundError")
            /\ pc' = "crashed"
            /\ dirs' = dirs
       ELSE /\ exc' = exc
            /\ pc' = next
            /\ dirs' = EnsureParents(dirs, path)
    /\ UNCHANGED << args, df_agents, df_matches, files, db, ws, conn, committed,
                    stdout, calls >>
    /\ MainFrame
MainEnsureOut == MainEnsureParents("ensure_out", args.out, "ensure_matches_out")
MainEnsureMatchesOut ==
    MainEnsureParents("ensure_matches_out", args.matches_out, "to_csv_agents")

\* lines 155 and 156
MainToCsv(at, path, df, next) ==
    /\ pc = at
    /\ files' = Put(files, path, df)
    /\ pc' = next
    /\ UNCHANGED << args, df_agents, df_matches, dirs, db, ws, conn, committed,
                    exc, stdout, calls >>
    /\ MainFrame
MainToCsvAgents == MainToCsv("to_csv_agents", args.out, df_agents, "to_csv_matches")
MainToCsvMatches == MainToCsv("to_csv_matches", args.matches_out, df_matches, "check_db")

\* lines 158-159: if args.db: write_sqlite(df_agents, df_matches, args.db)
MainCallWriteSqlite ==
    /\ pc = "check_db"
    /\ IF args.db # None
       THEN /\ ws' = [df_agents |-> df_agents, df_matches |-> df_matches,
                      db_path |-> args.db[1]]
            /\ calls' = calls + 1
            /\ pc' = "ws_entry"
       ELSE /\ UNCHANGED << ws, calls >>
            /\ pc' = "summary"
    /\ UNCHANGED << args, df_agents, df_matches, dirs, files, db, conn, committed,
                    exc, stdout >>
    /\ MainFrame

\* write_sqlite returned, or its exception leaves main
MainAfterWriteSqlite ==
    /\ pc = "ws_done"
    /\ pc' = IF exc = None THEN "summary" ELSE "crashed"
    /\ UNCHANGED << args, df_agents, df_matches, dirs, files, db, ws, conn,
                    committed, exc, stdout, calls >>
    /\ MainFrame

\* lines 161-165
MainSummary ==
    /\ pc = "summary"
    /\ stdout' = stdout \o << "Events fetched", "Agent rows, Match rows", "CSV written" >>
                        \o (IF args.db # None THEN << "SQLite written" >> ELSE << >>)
    /\ pc' = "exit0"
    /\ UNCHANGED << args, df_agents, df_matches, dirs, files, db, ws, conn,
                    committed, exc, calls >>
    /\ MainFrame

(* One run of the script.  The provider lists up to two events; the maps it *)
(* holds give every combination of empty and non-empty record sets.        *)
ELastYear == Event(1, Some(Date(DefaultYear - 1)), Some(Date(DefaultYear - 1)))
MainApiEvents == { << >>, << E1 >>, << E1, E2 >>, << ELastYear, E2 >> }

MapsAt(m11, m21) ==
    [matches |-> MatchesOfEvents,
     maps |-> [mid \in MatchIds |->
                 IF mid = 11 THEN m11 ELSE IF mid = 21 THEN m21 ELSE << >>]]
FullMap == MapStats("Ascent", Some(<< TeamA, TeamB >>), Roster(2))
NoPlayersMap == MapStats("Bind", Some(<< TeamB, TeamA >>), << >>)
OneTeamMap == MapStats("Haven", Some(<< TeamA >>), Roster(1))
MainWorlds ==
    { MapsAt(<< >>, << >>),
      MapsAt(<< FullMap >>, << >>),
      MapsAt(<< NoPlayersMap >>, << OneTeamMap >>),
      MapsAt(<< OneTeamMap >>, << FullMap, NoPlayersMap >>) }

\* the database file before the run: absent, or left by an earlier run
OldAgents == RowsOfEvents("agent", << E2 >>, MapsAt(<< >>, << FullMap >>))
OldMatches == RowsOfEvents("match", << E2 >>, MapsAt(<< >>, << FullMap >>))
OldDb ==
    [exists |-> TRUE, agent_rounds |-> Some(OldAgents), matches |-> Some(OldMatches),
     indexes |-> AllIndexes]

Init ==
    /\ pc = "parse_args"
    /\ args = DefaultArgs
    /\ api_events \in MainApiEvents
    /\ listed = << >> /\ evs = << >>
    /\ world \in MainWorlds
    /\ db \in { NoDb, OldDb } /\ db0 = db
    /\ dirs \in StartDirs(db) /\ dirs0 = dirs
    /\ InitRest

Next ==
    \/ ParseArgs
    \/ FetchEventsForYear
    \/ FetchRowsForEvents
    \/ MainEnsureOut
    \/ MainEnsureMatchesOut
    \/ MainToCsvAgents
    \/ MainToCsvMatches
    \/ MainCallWriteSqlite
    \/ WriteSqliteStep
    \/ MainAfterWriteSqlite
    \/ MainSummary

Spec == Init /\ [][Next]_vars

---------------------------------------------------------------------------
(* write_sqlite on its own: up to MaxCalls calls, one after the other, on   *)
(* any earlier state of the database file.                                  *)

CallFrames ==
    { << RowsOfEvents("agent", es, w), RowsOfEvents("match", es, w) >> :
        es \in { << E1 >>, << E2 >> }, w \in MainWorlds }
    \cup { << OldAgents, << >> >> }

DbStates ==
    { NoDb } \cup
    { d \in [exists : {TRUE},
             agent_rounds : { None, Some(OldAgents) },
             matches : { None, Some(OldMatches) },
             indexes : SUBSET AllIndexes] :
        \A ix \in d.indexes : d[IndexTable(ix)] # None }

CallWriteSqlite ==
    /\ pc \in { "idle", "ws_done" }
    /\ calls < MaxCalls
    /\ \E f \in CallFrames, p \in DbPaths :
          ws' = [df_agents |-> f[1], df_matches |-> f[2], db_path |-> p]
    /\ conn' = "none" /\ committed' = FALSE /\ exc' = None
    /\ calls' = calls + 1
    /\ pc' = "ws_entry"
    /\ UNCHANGED << args, api_events, world, listed, evs, df_agents, df_matches,
                    dirs, files, db, db0, dirs0, stdout >>

InitSqlite ==
    /\ pc = "idle"
    /\ args = DefaultArgs
    /\ api_events = << >> /\ listed = << >> /\ evs = << >>
    /\ world = NoWorld
    /\ db \in DbStates /\ db0 = db
    /\ dirs \in StartDirs(db) /\ dirs0 = dirs
    /\ InitRest

NextSqlite == CallWriteSqlite \/ WriteSqliteStep
SpecSqlite == InitSqlite /\ [][NextSqlite]_vars

---------------------------------------------------------------------------
(* Properties of the event selector (checked under SpecEvents) *)

Selected == pc = "fetch_rows"
HasYear(d, y) == d # None /\ d[1].year = y
BothDates(ev) == ev.start_date # None /\ ev.end_date # None
NoDates(ev) == ev.start_date = None /\ ev.end_date = None
YearMatches(ev) == HasYear(ev.start_date, args.year) \/ HasYear(ev.end_date, args.year)
PassesFilter(ev) == YearMatches(ev) \/ NoDates(ev)
KeptIdx == { i \in 1..Len(listed) : PassesFilter(listed[i]) }
\* position of a returned event in the provider's list (ids are positions)
Pos(ev) == CHOOSE i \in 1..Len(listed) : listed[i] = ev

\* C1 (as stated): an event with both dates is in the output iff its start
\* year or its end year equals the target year.
C1_Original ==
    Selected =>
        \A i \in 1..Len(listed) :
            BothDates(listed[i]) =>
                ((listed[i] \in Range(evs)) <=> YearMatches(listed[i]))

\* C1 (amended): an event with both dates is in the output iff its start
\* year or its end year equals the target year, or no event of the list
\* passes the year filter (the fallback then returns the whole list).
C1_IncludedIffYearOrFallback ==
    Selected =>
        \A i \in 1..Len(listed) :
            BothDates(listed[i]) =>
                ((listed[i] \in Range(evs))
                    <=> (YearMatches(listed[i]) \/ KeptIdx = {}))

\* C1 witness: the filter kept an event only for its end year and dropped
\* another event that has both dates.
C1_Witness ==
    /\ Selected
    /\ \E i, j \in 1..Len(listed) :
          /\ BothDates(listed[i]) /\ BothDates(listed[j])
          /\ ~HasYear(listed[i].start_date, args.year)
          /\ HasYear(listed[i].end_date, args.year)
          /\ listed[i] \in Range(evs)
          /\ ~YearMatches(listed[j])
          /\ listed[j] \notin Range(evs)

\* C2: if the filter keeps no event of a non-empty list the original list is
\* returned unchanged; if it keeps at least one, the result is exactly the
\* kept events in their original relative order.
C2_FallbackOrKeptInOrder ==
    Selected =>
        /\ (KeptIdx = {} /\ listed # << >>) => evs = listed
        /\ KeptIdx # {} =>
              /\ Len(evs) = Cardinality(KeptIdx)
              /\ Range(evs) = { listed[i] : i \in KeptIdx }
              /\ \A a, b \in 1..Len(evs) : a < b => Pos(evs[a]) < Pos(evs[b])

\* C2 witness: a list of two or more events, none passing the filter, came
\* back whole.
C2_Witness ==
    /\ Selected
    /\ Len(listed) >= 2 /\ KeptIdx = {}
    /\ evs = listed

\* C8 (as stated): for every value of --events, the number of events
\* considered never exceeds that value.
C8_Original ==
    Selected =>
        (args.events # None =>
            Len(listed) <= args.events[1] /\ Len(evs) <= args.events[1])

\* C8 (amended): for every positive value of --events the number of events
\* listed and selected never exceeds it; when --events is omitted or 0 the
\* whole provider list is considered.
C8_PositiveLimitCaps ==
    Selected =>
        /\ (args.events # None /\ args.events[1] > 0) =>
              Len(listed) <= args.events[1] /\ Len(evs) <= args.events[1]
        /\ (args.events = None \/ args.events = Some(0)) => listed = api_events

\* C8 witness: the provider had more events than --events allowed and the
\* cap was reached.
C8_Witness ==
    /\ Selected
    /\ args.events # None /\ args.events[1] > 0
    /\ Len(api_events) > args.events[1]
    /\ Len(evs) = args.events[1]

---------------------------------------------------------------------------
(* Properties of the row flattener (checked under SpecRows) *)

Flattened == pc = "ensure_out"

\* a map of the provider's data that the run visits: << event index,
\* match index, map index >>
Slots ==
    UNION { UNION { { << i, j, k >> :
                        k \in 1..Len(world.maps[world.matches[evs[i].id][j].match_id]) } :
                    j \in 1..Len(world.matches[evs[i].id]) } :
            i \in 1..Len(evs) }
SlotEv(sl) == evs[sl[1]]
SlotMid(sl) == world.matches[evs[sl[1]].id][sl[2]].match_id
SlotMap(sl) == world.maps[SlotMid(sl)][sl[3]]
TeamCount(mp) == IF mp.teams = None THEN 0 ELSE Len(mp.teams[1])
TwoTeamSlots == { sl \in Slots : TeamCount(SlotMap(sl)) = 2 }
T1(sl) == SlotMap(sl).teams[1][1]
T2(sl) == SlotMap(sl).teams[1][2]
NullAs0(sc) == IF sc = None THEN 0 ELSE sc[1]

\* the rows of a frame that belong to one map
RowsFor(df, sl) ==
    SelectSeq(df, LAMBDA r : /\ r.event_id = SlotEv(sl).id
                             /\ r.match_id = SlotMid(sl)
                             /\ r.map = SlotMap(sl).map_name)

\* the provider's data without one map
Drop(s, k) == SubSeq(s, 1, k - 1) \o SubSeq(s, k + 1, Len(s))
Without(w, sl) == [w EXCEPT !.maps[SlotMid(sl)] = Drop(@, sl[3])]

RECURSIVE SumPlayers(_)
SumPlayers(S) ==
    IF S = {} THEN 0
    ELSE LET sl == CHOOSE x \in S : TRUE
         IN  Len(SlotMap(sl).players) + SumPlayers(S \ {sl})

\* C3: a map whose team list does not have exactly two entries contributes
\* no agent row and no match row, and all rows are those of the same data
\* without that map.
C3_BadTeamListSkipped ==
    Flattened =>
        \A sl \in Slots \ TwoTeamSlots :
            /\ RowsFor(df_agents, sl) = << >>
            /\ RowsFor(df_matches, sl) = << >>
            /\ df_agents = RowsOfEvents("agent", evs, Without(world, sl))
            /\ df_matches = RowsOfEvents("match", evs, Without(world, sl))

\* C3 witness: a three-team map with players was skipped next to a two-team
\* map that produced rows.
C3_Witness ==
    /\ Flattened
    /\ \E sl \in Slots \ TwoTeamSlots :
          /\ TeamCount(SlotMap(sl)) = 3
          /\ SlotMap(sl).players # << >>
    /\ TwoTeamSlots # {}
    /\ df_agents # << >> /\ df_matches # << >>

\* C4: every two-team map contributes exactly 2 match rows, each the mirror
\* of the other in team and opponent, and one agent row per player entry;
\* in total 2 match rows per included map and one agent row per player entry
\* on included maps.
C4_TwoMatchRowsAndOneAgentRowPerPlayer ==
    Flattened =>
        /\ \A sl \in TwoTeamSlots :
              LET rm == RowsFor(df_matches, sl)
                  ra == RowsFor(df_agents, sl)
              IN  /\ Len(rm) = 2
                  /\ rm[1].team = T1(sl).name /\ rm[1].opponent = T2(sl).name
                  /\ rm[2].team = rm[1].opponent /\ rm[2].opponent = rm[1].team
                  /\ Len(ra) = Len(SlotMap(sl).players)
        /\ Len(df_matches) = 2 * Cardinality(TwoTeamSlots)
        /\ Len(df_agents) = SumPlayers(TwoTeamSlots)

\* C4 witness: two included maps of different events, with three or more
\* player entries between them.
C4_Witness ==
    /\ Flattened
    /\ \E a, b \in TwoTeamSlots : a[1] # b[1]
    /\ Len(df_matches) = 4
    /\ Len(df_agents) >= 3

\* C5: for every included map rounds_played is the same in both match rows
\* and in every agent row of the map: the sum of the two teams' scores, a
\* null score counting as 0.
C5_RoundsPlayedIsScoreSum ==
    Flattened =>
        \A sl \in TwoTeamSlots :
            LET sum == NullAs0(T1(sl).score) + NullAs0(T2(sl).score)
                rm == RowsFor(df_matches, sl)
                ra == RowsFor(df_agents, sl)
            IN  /\ \A n \in 1..Len(rm) : rm[n].rounds_played = sum
                /\ \A n \in 1..Len(ra) : ra[n].rounds_played = sum

\* C5 witness: a map with one null score and one score of 7, with players:
\* its rows carry 7 rounds.
C5_Witness ==
    /\ Flattened
    /\ \E sl \in TwoTeamSlots :
          /\ T1(sl).score = None /\ T2(sl).score = Some(7)
          /\ Len(RowsFor(df_agents, sl)) >= 1
          /\ RowsFor(df_agents, sl)[1].rounds_played = 7
          /\ RowsFor(df_matches, sl)[2].rounds_played = 7

\* C6: every result is 0 or 1; an agent row's result is 1 iff the player's
\* short code is that of a team of the map whose winner flag is set; a match
\* row's result is 1 iff its own team's winner flag is set.
C6_ResultIsWinnerFlag ==
    Flattened =>
        /\ \A n \in 1..Len(df_agents) : df_agents[n].result \in {0, 1}
        /\ \A n \in 1..Len(df_matches) : df_matches[n].result \in {0, 1}
        /\ \A sl \in TwoTeamSlots :
              LET rm == RowsFor(df_matches, sl)
                  ra == RowsFor(df_agents, sl)
                  ps == SlotMap(sl).players
              IN  /\ Len(rm) = 2 /\ Len(ra) = Len(ps)
                  /\ rm[1].result = 1 <=> T1(sl).is_winner
                  /\ rm[2].result = 1 <=> T2(sl).is_winner
                  /\ \A n \in 1..Len(ps) :
                        ra[n].result = 1 <=>
                            \E t \in {T1(sl), T2(sl)} :
                                t.is_winner /\ t.short = ps[n].team_short

\* C6 witness: the second team won; its player has result 1 and a player
\* whose short code matches neither team has result 0.
C6_Witness ==
    /\ Flattened
    /\ \E sl \in TwoTeamSlots :
          LET ra == RowsFor(df_agents, sl)
              ps == SlotMap(sl).players
          IN  /\ ~T1(sl).is_winner /\ T2(sl).is_winner
              /\ Len(ra) = 2
              /\ ps[1].team_short = T2(sl).short /\ ra[1].result = 1
              /\ ps[2].team_short \notin {T1(sl).short, T2(sl).short}
              /\ ra[2].result = 0

---------------------------------------------------------------------------
(* Properties of write_sqlite (checked under SpecSqlite) *)

WsLeft == pc = "ws_done"
WsInside ==
    pc \in { "ws_to_sql_agents", "ws_to_sql_matches", "ws_index_agent_region",
             "ws_index_agent_match", "ws_index_matches_region", "ws_commit",
             "ws_finally" }
WsSucceeded ==
    /\ WsLeft /\ exc = None
    /\ ws.df_agents # << >> /\ ws.df_matches # << >>

\* C9: after a successful write_sqlite with two non-empty record sets the
\* tables agent_rounds and matches hold exactly the records of that call,
\* whatever they held before, and the three indexes exist; a repeated write
\* is no different.
C9_TablesReplacedAndIndexed ==
    WsSucceeded =>
        /\ db.exists
        /\ db.agent_rounds = Some(ws.df_agents)
        /\ db.matches = Some(ws.df_matches)
        /\ {"idx_agent_region", "idx_agent_match", "idx_matches_region"}
               \subseteq db.indexes

\* C9 witness: a second write succeeded on a database that already held
\* both tables before the first call.
C9_Witness ==
    /\ WsSucceeded
    /\ calls = 2
    /\ db0.agent_rounds # None /\ db0.matches # None
    /\ db0.agent_rounds # db.agent_rounds

\* C10: once the connection is open it is closed before write_sqlite is
\* left, after a commit and after a failure alike; a failure still leaves
\* the function as an exception, and then the commit has not been performed.
C10_ConnectionClosedOnEveryPath ==
    /\ conn = "open" => WsInside
    /\ WsLeft => conn # "open"
    /\ (WsLeft /\ conn = "closed") => (committed <=> exc = None)
    /\ (pc = "ws_finally" /\ ~committed) => exc # None

\* C10 witness: the second table write failed after the first one was done;
\* the function was left with the exception, the connection closed and
\* nothing committed.
C10_Witness ==
    /\ WsLeft
    /\ exc # None /\ conn = "closed" /\ ~committed
    /\ db.agent_rounds = Some(ws.df_agents)
    /\ db.matches # Some(ws.df_matches)

---------------------------------------------------------------------------
(* Properties of a run of main (checked under Spec) *)

Terminated == pc \in { "exit0", "crashed" }
DbRequested == args.db # None
AnEmptySet == df_agents = << >> \/ df_matches = << >>

\* what C7 says of a finished run: write_sqlite printed the warning and
\* raised nothing, no connection was opened, the database and its parent
\* directory are as they were (the directory exists only if it did before or
\* is also the directory of a CSV file), both CSV files are written and the
\* exit is 0
SkippedAndExit0 ==
    /\ pc = "exit0" /\ exc = None
    /\ Warning \in Range(stdout)
    /\ conn = "none" /\ ~committed
    /\ db = db0
    /\ args.db[1].dir \in dirs =>
          args.db[1].dir \in dirs0 \cup { args.out.dir, args.matches_out.dir }
    /\ args.out \in DOMAIN files /\ files[args.out] = df_agents
    /\ args.matches_out \in DOMAIN files /\ files[args.matches_out] = df_matches

\* C7: when --db is set and the agent record set or the match record set is
\* empty, write_sqlite prints a warning and returns without raising, without
\* opening a connection and without creating or changing the database or
\* its parent directory; both CSV files are written and the run exits 0.
C7_EmptySetsSkipSqliteAndExit0 ==
    (Terminated /\ DbRequested /\ AnEmptySet) => SkippedAndExit0

\* The runs that break C7 are those whose --out or --matches-out has no
\* directory part: they end in ensure_parents before anything is written.
\* Every other run with --db and an empty record set ends as C7 says.
EmptySetRunsFailOnlyInEnsureParents ==
    (Terminated /\ DbRequested /\ AnEmptySet) =>
        IF args.out.dir # "" /\ args.matches_out.dir # ""
        THEN SkippedAndExit0
        ELSE /\ pc = "crashed" /\ exc = Raise("FileNotFoundError")
             /\ calls = 0 /\ files = << >> /\ stdout = << >>
             /\ db = db0 /\ conn = "none"

===========================================================================
